---- MODULE Spec2Model ----
(***************************************************************************)
(* School portal backend (src/main.py, src/schemas.py): signup / login,    *)
(* orders, revenue summary and payout requests over a document store with  *)
(* the collections "school", "order" and "payoutrequest".                  *)
(*                                                                         *)
(* Amounts are modelled as integers (whole currency units, which Python    *)
(* floats add exactly).  Strings that the code parses or normalises are    *)
(* modelled by their structure so that the conversions are not identity:   *)
(*   - an id string is either the 24-digit hex text of an ObjectId, in     *)
(*     lower or upper case, or some other text;                            *)
(*   - an email is a local part and a domain, each a sequence of letters.  *)
(***************************************************************************)
EXTENDS Bags, FiniteSets, Integers, Sequences, TLC

(***************************************************************************)
(* Bounds of the model.                                                    *)
(***************************************************************************)
\* documents in the store, all collections together
MaxDocs == 2
\* requests that are between two of their store round trips at once
MaxInFlight == 2
\* the ledger of one school (SpecLedger): its orders and its payout requests
MaxLedgerOrders == 2
MaxLedgerPayouts == 2

(***************************************************************************)
(* bson.ObjectId and its string forms.                                     *)
(***************************************************************************)
\* The ObjectId insert_one generates for the k-th document of a collection.
ObjectId(c, k) == [coll |-> c, k |-> k]

NoOid == [coll |-> "", k |-> 0]

\* str(ObjectId): 24 hex digits, lower case.
str(oid) == [kind |-> "hex", oid |-> oid, upper |-> FALSE]

\* The same 24 hex digits typed in upper case.
UpperHex(s) == [s EXCEPT !.upper = TRUE]

\* A string that is not 24 hex digits.
Text == [kind |-> "text", oid |-> NoOid, upper |-> FALSE]

\* ObjectId.is_valid(s): s is 24 hex digits of either case.
ObjectId_is_valid(s) == s.kind = "hex"

\* ObjectId(s) for a valid s: the digits' value, whatever their case.
ObjectId_parse(s) == s.oid

\* The _id field of a stored document (an ObjectId, never a string).
IdValue(oid) == [kind |-> "oid", oid |-> oid, upper |-> FALSE]

(***************************************************************************)
(* Emails and pydantic's EmailStr.                                         *)
(***************************************************************************)
LowerChar(ch) == CASE ch = "A" -> "a"
                   [] ch = "X" -> "x"
                   [] OTHER -> ch

Lower(s) == [i \in DOMAIN s |-> LowerChar(s[i])]

\* email-validator: a local part and a domain, both non-empty.
EmailSyntaxOk(e) == Len(e.local) > 0 /\ Len(e.domain) > 0

\* EmailStr returns the normalised address: the domain in lower case, the
\* local part as typed.
NormalizeEmail(e) == [local |-> e.local, domain |-> Lower(e.domain)]

(***************************************************************************)
(* schemas.py: the request models.  A validation failure is answered 422   *)
(* before the handler runs.                                                *)
(***************************************************************************)
MinPasswordLen == 6

Unset == "<unset>"

School_valid(raw) == EmailSyntaxOk(raw.email) /\ Len(raw.password) >= MinPasswordLen

School(raw) == [name |-> raw.name,
                email |-> NormalizeEmail(raw.email),
                password |-> raw.password]

Order_valid(raw) == raw.amount >= 0

Order(raw) == [school_id |-> raw.school_id,
               amount |-> raw.amount,
               status |-> IF raw.status = Unset THEN "paid" ELSE raw.status]

PayoutRequest_valid(raw) == raw.amount >= 0

PayoutRequest(raw) == [school_id |-> raw.school_id,
                       amount |-> raw.amount,
                       status |-> IF raw.status = Unset THEN "pending" ELSE raw.status]

(***************************************************************************)
(* State.                                                                  *)
(***************************************************************************)
VARIABLES
    db,        \* the process-wide handle: "None", or a Database object named
               \* by what bool() of it does: "Truthy" or "Raises"
    coll,      \* coll[name]: the documents of a collection, in insertion order
    last,      \* the last response sent and the request it answers
    inflight   \* the requests the worker threads hold between two store
               \* round trips, each with its local variables

vars == <<db, coll, last, inflight>>

CollectionNames == {"school", "order", "payoutrequest"}

NDocs(c) == Len(c.school) + Len(c.order) + Len(c.payoutrequest)

RECURSIVE SumAmount(_)
\* sum([d.get("amount", 0) for d in docs])
SumAmount(docs) == IF docs = <<>> THEN 0
                   ELSE Head(docs).amount + SumAmount(Tail(docs))

(***************************************************************************)
(* database.py: the helpers main.py imports, modelled from the             *)
(* specification (store adapter: insert-one, find-many).                   *)
(***************************************************************************)
\* create_document(name, data): insert the model's fields as one document
\* with a fresh _id; the new collections.
create_document(c, name, data) ==
    [c EXCEPT ![name] =
        Append(@, [f \in DOMAIN data \cup {"_id"} |->
                     IF f = "_id" THEN IdValue(ObjectId(name, Len(@) + 1))
                     ELSE data[f]])]

\* The string create_document returns: str(result.inserted_id).
inserted_id(c, name) == str(ObjectId(name, Len(c[name]) + 1))

\* get_documents(name, {"school_id": school_id}): every matching document.
get_documents(c, name, school_id) ==
    SelectSeq(c[name], LAMBDA d : d.school_id = school_id)

\* Responses.
Resp(op, req, code, body) == [op |-> op, req |-> req, code |-> code, body |-> body]

Detail(msg) == [detail |-> msg]

NotConfigured == Detail("Database not configured")

(***************************************************************************)
(* main.py: the handlers.  The sync handlers run on worker threads, so a   *)
(* handler that makes several store calls is several steps: one per store  *)
(* round trip, other requests being served in between.  A piece's outcome  *)
(* is the status code, the response body and the collections it leaves.    *)
(***************************************************************************)
Out(code, body, c) == [code |-> code, body |-> body, coll |-> c]

\* bool(db), as `if db` evaluates it.  The class of the handle is set in
\* database.py: a Database of PyMongo 4 raises NotImplementedError, one of
\* PyMongo 3 is true, and None is false.
db_bool ==
    CASE db = "Truthy" -> "True"
      [] db = "Raises" -> "raises"
      [] OTHER -> "False"

\* An exception no handler catches is answered 500 by the framework.
InternalServerError == Detail("Internal Server Error")

\* create_document on an unset handle raises; the request is answered 500.
create_document_fault == db = "None"

StoreUnavailable == Detail("Database not available")

\* signup, line 67: db["school"].find_one({"email": school.email}) if db else None
signup_existing(school) ==
    IF db_bool = "True"
    THEN SelectSeq(coll.school, LAMBDA d : d.email = school.email)
    ELSE <<>>

\* signup, lines 70-71: insert and answer with the new id.
signup_insert(school) ==
    IF create_document_fault
    THEN Out(500, StoreUnavailable, coll)
    ELSE Out(200,
             [school_id |-> inserted_id(coll, "school"),
              name |-> school.name,
              email |-> school.email],
             create_document(coll, "school", school))

\* login, line 77: find_one({"email": req.email, "password": req.password})
login_doc(req) ==
    SelectSeq(coll.school,
              LAMBDA d : d.email = req.email /\ d.password = req.password)

\* Mutant: the test of the handle dropped.
login_unguarded(req) ==
    IF login_doc(req) = <<>>
    THEN Out(401, Detail("Invalid credentials"), coll)
    ELSE Out(200, Detail("ok"), coll)

login(req) ==
    IF db = "None" THEN Out(500, NotConfigured, coll)
    ELSE IF login_doc(req) = <<>>
    THEN Out(401, Detail("Invalid credentials"), coll)
    ELSE LET doc == Head(login_doc(req))
         IN  Out(200,
                 [school_id |-> str(doc._id.oid),
                  name |-> doc.name,
                  email |-> doc.email],
                 coll)

\* Order(**{k: v for k, v in d.items() if k != "_id"})
OrderOf(d) == [school_id |-> d.school_id, amount |-> d.amount, status |-> d.status]

\* Mutant: only the paid orders fetched.
list_orders_docs_paid(school_id) ==
    SelectSeq(get_documents(coll, "order", school_id), LAMBDA d : d.status = "paid")

\* list_orders, line 94: get_documents("order", {"school_id": school_id})
list_orders_docs(school_id) == get_documents(coll, "order", school_id)

list_orders(school_id) ==
    IF db = "None" THEN Out(500, NotConfigured, coll)
    ELSE Out(200,
             [i \in DOMAIN list_orders_docs(school_id) |->
                 OrderOf(list_orders_docs(school_id)[i])],
             coll)

\* Mutant: the document written to another collection.
create_order_write_elsewhere(order) == create_document(coll, "payoutrequest", order)

\* create_order, line 100: the collections after create_document("order", order)
create_order_write(order) == create_document(coll, "order", order)

create_order(order) ==
    IF create_document_fault
    THEN Out(500, StoreUnavailable, coll)
    ELSE Out(200, [id |-> inserted_id(coll, "order")], create_order_write(order))

\* Mutant: the status filter dropped.
revenue_orders_any_status(school_id) ==
    SelectSeq(coll.order, LAMBDA o : o.school_id = school_id)

\* revenue, line 107: find({"school_id": school_id, "status": "paid"})
revenue_orders(school_id) ==
    SelectSeq(coll.order,
              LAMBDA o : o.school_id = school_id /\ o.status = "paid")

\* revenue, lines 107-109: the locals the first read leaves.
revenue_totals(school_id) ==
    [total_revenue |-> SumAmount(revenue_orders(school_id)),
     total_orders |-> Len(revenue_orders(school_id))]

\* Mutant: the status filter dropped.
revenue_payouts_any_status(school_id) ==
    SelectSeq(coll.payoutrequest, LAMBDA p : p.school_id = school_id)

\* revenue, line 111: find({"school_id": ..., "status": {"$in": ["approved", "paid"]}})
revenue_payouts(school_id) ==
    SelectSeq(coll.payoutrequest,
              LAMBDA p : p.school_id = school_id /\ p.status \in {"approved", "paid"})

\* revenue, line 113: max(total_revenue - paid_out, 0.0)
revenue_pending(total_revenue, paid_out) ==
    IF total_revenue - paid_out > 0 THEN total_revenue - paid_out ELSE 0

\* revenue, lines 111-114: the second read and the answer.
revenue_summary(school_id, totals) ==
    Out(200,
        [total_orders |-> totals.total_orders,
         total_revenue |-> totals.total_revenue,
         pending_payout |->
            revenue_pending(totals.total_revenue,
                            SumAmount(revenue_payouts(school_id)))],
        coll)

\* PayoutRequest(**{k: v for k, v in d.items() if k != "_id"})
PayoutOf(d) == [school_id |-> d.school_id, amount |-> d.amount, status |-> d.status]

\* list_payouts, line 127: get_documents("payoutrequest", {"school_id": school_id})
list_payouts_docs(school_id) == get_documents(coll, "payoutrequest", school_id)

list_payouts(school_id) ==
    IF db = "None" THEN Out(500, NotConfigured, coll)
    ELSE Out(200,
             [i \in DOMAIN list_payouts_docs(school_id) |->
                 PayoutOf(list_payouts_docs(school_id)[i])],
             coll)

\* create_payout, line 135: find_one({"_id": ObjectId(req.school_id)})
create_payout_typed(req) ==
    SelectSeq(coll.school,
              LAMBDA d : d._id = IdValue(ObjectId_parse(req.school_id)))

\* Mutant: any school of the store taken for the one asked for.
create_payout_fallback_any(req) == coll.school

\* create_payout, line 138: find_one({"_id": req.school_id})
create_payout_fallback(req) ==
    SelectSeq(coll.school, LAMBDA d : d._id = req.school_id)

\* create_payout, line 141: the collections after create_document("payoutrequest", req)
create_payout_write(req) == create_document(coll, "payoutrequest", req)

\* create_payout, lines 141-142: insert and answer.
create_payout_insert(req) ==
    Out(200,
        [request_id |-> inserted_id(coll, "payoutrequest"), status |-> "pending"],
        create_payout_write(req))

NotFound == Detail("School not found")

ValidationError == Detail("validation error")

(***************************************************************************)
(* Requests.                                                               *)
(***************************************************************************)
\* the first school's id as str() prints it, the same digits in upper case,
\* and a string that is no ObjectId
SchoolIdInputs ==
    {str(ObjectId("school", 1)), UpperHex(str(ObjectId("school", 1))), Text}

\* an invalid amount and a valid one
AmountInputs == {-1, 2}

EmailInputs ==
    {[local |-> <<"a">>, domain |-> <<"x">>],
     [local |-> <<"a">>, domain |-> <<"X">>],
     [local |-> <<"A">>, domain |-> <<"x">>],
     [local |-> <<"a">>, domain |-> <<>>]}

PasswordInputs == {"secret1", "short"}

SchoolInputs == [name : {"School"}, email : EmailInputs, password : PasswordInputs]

LoginInputs ==
    [email : {[local |-> <<"a">>, domain |-> <<"x">>],
              [local |-> <<"a">>, domain |-> <<"X">>]},
     password : {"secret1", "secret2"}]

\* orders name the first school's id in either case of its digits
OrderInputs ==
    [school_id : {str(ObjectId("school", 1)), UpperHex(str(ObjectId("school", 1)))},
     amount : AmountInputs,
     status : {Unset, "pending"}]

PayoutInputs ==
    [school_id : SchoolIdInputs, amount : AmountInputs,
     status : {Unset, "approved"}]

(***************************************************************************)
(* Scopes: the requests sent and the size of the store, for each of the    *)
(* two specifications.  Portal sends every kind of request to a small      *)
(* store; Ledger builds one school's ledger of orders and payout requests. *)
(***************************************************************************)
Portal ==
    [signups |-> SchoolInputs,
     logins |-> LoginInputs,
     listed |-> SchoolIdInputs,
     summed |-> SchoolIdInputs,
     orders |-> OrderInputs,
     payouts |-> PayoutInputs,
     cap |-> [school |-> MaxDocs, order |-> MaxDocs, payoutrequest |-> MaxDocs,
              docs |-> MaxDocs]]

\* payout requests of each status, for the school's id in either case of its
\* digits, of amounts below and above the order's
LedgerPayoutInputs ==
    {[school_id |-> str(ObjectId("school", 1)), amount |-> 1, status |-> "approved"],
     [school_id |-> str(ObjectId("school", 1)), amount |-> 3, status |-> "paid"],
     [school_id |-> str(ObjectId("school", 1)), amount |-> 1, status |-> Unset],
     [school_id |-> str(ObjectId("school", 1)), amount |-> 3, status |-> "rejected"],
     [school_id |-> UpperHex(str(ObjectId("school", 1))), amount |-> 1,
      status |-> "approved"]}

Ledger ==
    [signups |-> {[name |-> "School",
                   email |-> [local |-> <<"a">>, domain |-> <<"x">>],
                   password |-> "secret1"]},
     logins |-> {[email |-> [local |-> <<"a">>, domain |-> <<"x">>],
                  password |-> "secret1"]},
     listed |-> {str(ObjectId("school", 1))},
     summed |-> {str(ObjectId("school", 1)), UpperHex(str(ObjectId("school", 1)))},
     orders |-> {[school_id |-> str(ObjectId("school", 1)), amount |-> 2,
                  status |-> Unset]},
     payouts |-> LedgerPayoutInputs,
     cap |-> [school |-> 1, order |-> MaxLedgerOrders,
              payoutrequest |-> MaxLedgerPayouts,
              docs |-> 1 + MaxLedgerOrders + MaxLedgerPayouts]]

\* the store c is within the scope's size
Fits(S, c) ==
    /\ \A name \in CollectionNames : Len(c[name]) <= S.cap[name]
    /\ NDocs(c) <= S.cap.docs

(***************************************************************************)
(* Worker threads.  The threads are alike, so what is kept of them is the  *)
(* bag of the requests they hold between two store round trips.            *)
(***************************************************************************)
NoTotals == [total_revenue |-> 0, total_orders |-> 0]

Held(op, pc, req, totals) == [op |-> op, pc |-> pc, req |-> req, totals |-> totals]

(***************************************************************************)
(* Behaviour.                                                              *)
(***************************************************************************)
Init ==
    /\ db \in {"None", "Truthy", "Raises"}
    /\ coll = [school |-> <<>>, order |-> <<>>, payoutrequest |-> <<>>]
    /\ last = Resp("none", <<>>, 0, <<>>)
    /\ inflight = EmptyBag

\* The response is sent, and the store is as the handler leaves it.
Respond(S, op, req, out) ==
    /\ Fits(S, out.coll)
    /\ coll' = out.coll
    /\ last' = Resp(op, req, out.code, out.body)
    /\ UNCHANGED db

\* A request answered within its first store round trip.
Serve(S, op, req, out) == Respond(S, op, req, out) /\ UNCHANGED inflight

\* pydantic rejects the body before the handler runs.
Reject(S, op) == Serve(S, op, <<>>, Out(422, ValidationError, coll))

\* The request waits for its next store round trip, its locals kept.
Park(held) ==
    /\ BagCardinality(inflight) < MaxInFlight
    /\ inflight' = inflight (+) SetToBag({held})
    /\ UNCHANGED <<db, coll, last>>

\* The held request h is answered.
Finish(S, h, out) ==
    /\ Respond(S, h.op, h.req, out)
    /\ inflight' = inflight (-) SetToBag({h})

\* signup, lines 65-69: validation, `if db`, the existence check.
SignupCheck(S) ==
    \E raw \in S.signups :
        IF ~School_valid(raw) THEN Reject(S, "signup")
        ELSE IF db_bool = "raises"
        THEN Serve(S, "signup", raw, Out(500, InternalServerError, coll))
        ELSE IF db_bool = "False"
        THEN Serve(S, "signup", raw, signup_insert(School(raw)))
        ELSE IF signup_existing(School(raw)) # <<>>
        THEN Serve(S, "signup", raw, Out(400, Detail("Email already registered"), coll))
        ELSE Park(Held("signup", "insert", raw, NoTotals))

\* signup, lines 70-71, after the existence check found nothing.
SignupInsert(S, h) ==
    /\ h.op = "signup" /\ h.pc = "insert"
    /\ Finish(S, h, signup_insert(School(h.req)))

Login(S) ==
    \E req \in S.logins : Serve(S, "login", req, login(req))

ListOrders(S) ==
    \E school_id \in S.listed :
        Serve(S, "list_orders", school_id, list_orders(school_id))

CreateOrder(S) ==
    \E raw \in S.orders :
        IF Order_valid(raw)
        THEN Serve(S, "create_order", raw, create_order(Order(raw)))
        ELSE Reject(S, "create_order")

\* revenue, lines 105-109: the test of the handle and the read of order.
RevenueOrders(S) ==
    \E school_id \in S.summed :
        IF db = "None"
        THEN Serve(S, "revenue", school_id, Out(500, NotConfigured, coll))
        ELSE Park(Held("revenue", "payouts", school_id, revenue_totals(school_id)))

\* revenue, lines 111-114: the read of payoutrequest and the answer.
RevenuePayouts(S, h) ==
    /\ h.op = "revenue" /\ h.pc = "payouts"
    /\ Finish(S, h, revenue_summary(h.req, h.totals))

ListPayouts(S) ==
    \E school_id \in S.listed :
        Serve(S, "list_payouts", school_id, list_payouts(school_id))

\* create_payout, lines 131-138: validation, the test of the handle, and
\* the first lookup: the typed one for a well-formed id, else the raw one.
CreatePayoutLookup(S) ==
    \E raw \in S.payouts :
        IF ~PayoutRequest_valid(raw) THEN Reject(S, "create_payout")
        ELSE IF db = "None"
        THEN Serve(S, "create_payout", raw, Out(500, NotConfigured, coll))
        ELSE IF ObjectId_is_valid(raw.school_id)
        THEN Park(Held("create_payout",
                       IF create_payout_typed(PayoutRequest(raw)) # <<>>
                       THEN "insert" ELSE "fallback",
                       raw, NoTotals))
        ELSE IF create_payout_fallback(PayoutRequest(raw)) # <<>>
        THEN Park(Held("create_payout", "insert", raw, NoTotals))
        ELSE Serve(S, "create_payout", raw, Out(404, NotFound, coll))

\* create_payout, lines 136-140: the raw lookup after the typed one failed.
CreatePayoutFallback(S, h) ==
    /\ h.op = "create_payout" /\ h.pc = "fallback"
    /\ IF create_payout_fallback(PayoutRequest(h.req)) # <<>>
       THEN /\ inflight' = (inflight (-) SetToBag({h}))
                              (+) SetToBag({[h EXCEPT !.pc = "insert"]})
            /\ UNCHANGED <<db, coll, last>>
       ELSE Finish(S, h, Out(404, NotFound, coll))

\* create_payout, lines 141-142.
CreatePayoutInsert(S, h) ==
    /\ h.op = "create_payout" /\ h.pc = "insert"
    /\ Finish(S, h, create_payout_insert(PayoutRequest(h.req)))

Next ==
    \/ SignupCheck(Portal)
    \/ \E h \in BagToSet(inflight) : SignupInsert(Portal, h)
    \/ Login(Portal)
    \/ ListOrders(Portal)
    \/ CreateOrder(Portal)
    \/ RevenueOrders(Portal)
    \/ \E h \in BagToSet(inflight) : RevenuePayouts(Portal, h)
    \/ ListPayouts(Portal)
    \/ CreatePayoutLookup(Portal)
    \/ \E h \in BagToSet(inflight) : CreatePayoutFallback(Portal, h)
    \/ \E h \in BagToSet(inflight) : CreatePayoutInsert(Portal, h)

Spec == Init /\ [][Next]_vars

NextLedger ==
    \/ SignupCheck(Ledger)
    \/ \E h \in BagToSet(inflight) : SignupInsert(Ledger, h)
    \/ Login(Ledger)
    \/ ListOrders(Ledger)
    \/ CreateOrder(Ledger)
    \/ RevenueOrders(Ledger)
    \/ \E h \in BagToSet(inflight) : RevenuePayouts(Ledger, h)
    \/ ListPayouts(Ledger)
    \/ CreatePayoutLookup(Ledger)
    \/ \E h \in BagToSet(inflight) : CreatePayoutFallback(Ledger, h)
    \/ \E h \in BagToSet(inflight) : CreatePayoutInsert(Ledger, h)

SpecLedger == Init /\ [][NextLedger]_vars


(***************************************************************************)
(* Vocabulary of the properties, stated over the store itself.             *)
(***************************************************************************)
RECURSIVE SumOver(_, _)
\* the sum of amount over the documents of docs at the positions I
SumOver(docs, I) ==
    IF I = {} THEN 0
    ELSE LET i == CHOOSE x \in I : TRUE
         IN  docs[i].amount + SumOver(docs, I \ {i})

PaidOrdersOf(sid) ==
    {i \in DOMAIN coll.order :
        coll.order[i].school_id = sid /\ coll.order[i].status = "paid"}

SettledPayoutsOf(sid) ==
    {i \in DOMAIN coll.payoutrequest :
        /\ coll.payoutrequest[i].school_id = sid
        /\ coll.payoutrequest[i].status \in {"approved", "paid"}}

Answered(op, code) == last.op = op /\ last.code = code

\* the step sends a response: a request is answered within its first round
\* trip, or a held one is answered
Responds ==
    \/ inflight' = inflight
    \/ BagCardinality(inflight') < BagCardinality(inflight)

\* the step answers the held request h
Answers(h) ==
    /\ BagIn(h, inflight)
    /\ inflight' = inflight (-) SetToBag({h})
    /\ last'.op = h.op
    /\ last'.req = h.req

\* the requests that came to be held, or moved on, in the step
NewlyHeld ==
    {h \in BagToSet(inflight') : CopiesIn(h, inflight') > CopiesIn(h, inflight)}

\* the school a school_id string names: its 24 hex digits, read without
\* regard to case, are the school's id
NamesSchool(sid, c) ==
    \E j \in DOMAIN c.school :
        sid.kind = "hex" /\ str(c.school[j]._id.oid) = [sid EXCEPT !.upper = FALSE]

\* docs grew into docs2 by exactly one document, the old ones untouched
GrewByOne(docs, docs2) ==
    Len(docs2) = Len(docs) + 1 /\ SubSeq(docs2, 1, Len(docs)) = docs

\* every document of docs is still in docs2, where it was and as it was
KeptIn(docs, docs2) ==
    Len(docs2) >= Len(docs) /\ SubSeq(docs2, 1, Len(docs)) = docs

Fields(d) == [school_id |-> d.school_id, amount |-> d.amount, status |-> d.status]

\* body holds the documents of docs with the given school_id, each as often
\* as the collection does, and nothing else
ListsExactly(body, docs, sid) ==
    /\ \A k \in DOMAIN body : body[k].school_id = sid
    /\ Len(body) = Cardinality({i \in DOMAIN docs : docs[i].school_id = sid})
    /\ \A i \in DOMAIN docs :
          docs[i].school_id = sid =>
             Cardinality({k \in DOMAIN body : body[k] = Fields(docs[i])})
               = Cardinality({j \in DOMAIN docs : Fields(docs[j]) = Fields(docs[i])})

\* What a summary's totals are, when revenue reads order and when it answers.
C1_Step ==
    /\ \A h \in NewlyHeld :
          h.op = "revenue" =>
             /\ h.totals.total_orders = Cardinality(PaidOrdersOf(h.req))
             /\ h.totals.total_revenue = SumOver(coll.order, PaidOrdersOf(h.req))
             /\ PaidOrdersOf(h.req) = {} =>
                   h.totals.total_orders = 0 /\ h.totals.total_revenue = 0
    /\ (Responds /\ last'.op = "revenue" /\ db # "None") =>
          \E h \in BagToSet(inflight) :
             /\ Answers(h)
             /\ last'.code = 200
             /\ last'.body.total_orders = h.totals.total_orders
             /\ last'.body.total_revenue = h.totals.total_revenue

\* Orders are never removed nor changed, so a summary never exceeds the store.
C1_NoMoreThanStored ==
    Answered("revenue", 200) =>
        /\ last.body.total_orders <= Cardinality(PaidOrdersOf(last.req))
        /\ last.body.total_revenue <= SumOver(coll.order, PaidOrdersOf(last.req))

(***************************************************************************)
(* C1.  The revenue summary counts exactly the school's paid orders:       *)
(* total_orders is the number of order documents with the given school_id  *)
(* and status "paid" in the store as revenue's read of order finds it,     *)
(* total_revenue the sum of their amounts; other schools' orders and       *)
(* unpaid orders add nothing, and no paid order gives 0 and 0.  The        *)
(* summary answered carries these totals, which the store at the time of   *)
(* the answer can only equal or exceed.                                    *)
(***************************************************************************)
C1_RevenueTotals == []C1_NoMoreThanStored /\ [][C1_Step]_vars

\* a summary over two orders of which only one counts
C1_Witness ==
    /\ Answered("revenue", 200)
    /\ Len(coll.order) = 2
    /\ last.body.total_orders = 1
    /\ last.body.total_revenue = 2

(***************************************************************************)
(* C2.  pending_payout is max(total_revenue - paid_out, 0), total_revenue  *)
(* being the total the summary reports and paid_out the sum of amount over *)
(* the school's payout requests whose status is approved or paid, pending  *)
(* and rejected ones and those under another school_id left out; it is     *)
(* never negative, paid_out above total_revenue giving 0.                  *)
(***************************************************************************)
C2_PendingPayout ==
    Answered("revenue", 200) =>
        LET paid_out == SumOver(coll.payoutrequest, SettledPayoutsOf(last.req))
            diff == last.body.total_revenue - paid_out
        IN  /\ last.body.pending_payout >= 0
            /\ diff >= 0 => last.body.pending_payout = diff
            /\ diff < 0 => last.body.pending_payout = 0

\* revenue of two orders, less the one payout request that counts of the two
\* stored, leaves a positive rest
C2_Witness ==
    /\ Answered("revenue", 200)
    /\ last.body.total_revenue = 4
    /\ Len(coll.payoutrequest) = 2
    /\ SumOver(coll.payoutrequest, SettledPayoutsOf(last.req)) = 3
    /\ last.body.pending_payout = 1

(***************************************************************************)
(* C3.  A payout request that was created is stored with status "pending"  *)
(* and answered with status "pending", whatever status the body carried.   *)
(***************************************************************************)
C3_PayoutStoredPending ==
    Answered("create_payout", 200) =>
        /\ last.body.status = "pending"
        /\ coll.payoutrequest[Len(coll.payoutrequest)].status = "pending"

\* One step of create_payout: what its lookups decide, and what it answers.
C4_Step ==
    /\ \A h \in NewlyHeld :
          h.op = "create_payout" =>
             /\ h.pc = "insert" <=> NamesSchool(h.req.school_id, coll)
             /\ h.pc = "fallback" <=> ~NamesSchool(h.req.school_id, coll)
    /\ (last'.op = "create_payout" /\ last'.code # 422 /\ db # "None") =>
          /\ inflight' = inflight =>
                /\ ~NamesSchool(last'.req.school_id, coll)
                /\ last'.code = 404
                /\ last'.body = Detail("School not found")
                /\ coll' = coll
          /\ BagCardinality(inflight') < BagCardinality(inflight) =>
                \E h \in BagToSet(inflight) :
                   /\ Answers(h)
                   /\ h.pc = "fallback" =>
                         /\ last'.code = 404
                         /\ last'.body = Detail("School not found")
                         /\ coll' = coll
                   /\ h.pc = "insert" =>
                         /\ last'.code = 200
                         /\ GrewByOne(coll.payoutrequest, coll'.payoutrequest)
                         /\ coll'.school = coll.school
                         /\ coll'.order = coll.order

(***************************************************************************)
(* C4.  create_payout whose lookups find no school for the school_id is    *)
(* answered 404 "School not found" and leaves payoutrequest as it was;     *)
(* when a lookup finds the school it adds exactly one payout request.  So  *)
(* every stored payout request names a school of the store.                *)
(***************************************************************************)
C4_PayoutSchoolChecked ==
    /\ [](\A i \in DOMAIN coll.payoutrequest :
             NamesSchool(coll.payoutrequest[i].school_id, coll))
    /\ [][C4_Step]_vars

\* a payout request accepted for an id typed in upper case
C4_Witness ==
    /\ Answered("create_payout", 200)
    /\ last.req.school_id.upper
    /\ Len(coll.payoutrequest) = 1

\* One signup answered, the store being connected.
C5_Step ==
    (Responds /\ last'.op = "signup" /\ last'.code # 422 /\ db # "None") =>
        IF \E j \in DOMAIN coll.school : coll.school[j].email = last'.req.email
        THEN last'.code = 400 /\ coll' = coll
        ELSE /\ last'.code = 200
             /\ GrewByOne(coll.school, coll'.school)
             /\ last'.body.school_id = str(coll'.school[Len(coll'.school)]._id.oid)
             /\ last'.body.name = last'.req.name
             /\ last'.body.email = last'.req.email

(***************************************************************************)
(* C5.  Signup with an email that exactly equals the email of a stored     *)
(* school is answered 400 and inserts nothing; signup with an email not in *)
(* the store inserts exactly one school and returns its id with the        *)
(* submitted name and email.                                               *)
(***************************************************************************)
C5_SignupConflictOrInsert == [][C5_Step]_vars

\* A login step: it succeeds exactly on stored credentials and writes
\* nothing; and one that directly follows the signup it repeats succeeds.
C6_Step ==
    /\ (last'.op = "login" /\ db # "None") =>
          /\ coll' = coll
          /\ last'.code \in {200, 401}
          /\ last'.code = 200 <=>
                \E j \in DOMAIN coll.school :
                    /\ coll.school[j].email = last'.req.email
                    /\ coll.school[j].password = last'.req.password
    /\ (/\ Answered("signup", 200)
        /\ last'.op = "login"
        /\ last'.req.email = last.req.email
        /\ last'.req.password = last.req.password)
       => last'.code = 200

(***************************************************************************)
(* C6.  Login succeeds exactly when a stored school has the submitted      *)
(* email and password, and never writes to the store; after a signup that  *)
(* succeeded, a login with the same email and password succeeds.           *)
(***************************************************************************)
C6_LoginAfterSignup == [][C6_Step]_vars

(***************************************************************************)
(* C7.  With the store handle unset every request that reaches a handler   *)
(* is answered 500 within its first step, no handler gets as far as a      *)
(* second store call, and the store is never written; the handlers that    *)
(* test the handle themselves answer "Database not configured", and        *)
(* revenue returns no summary.                                             *)
(***************************************************************************)
C7_NotConfigured ==
    db = "None" =>
        /\ NDocs(coll) = 0
        /\ inflight = EmptyBag
        /\ last.op # "none" /\ last.code # 422 => last.code = 500
        /\ last.op \in {"login", "list_orders", "revenue", "list_payouts", "create_payout"}
             /\ last.code # 422 => last.body = NotConfigured

C7_Witness == db = "None" /\ Answered("revenue", 500)

\* What a listing holds, and what it leaves.
C8_Listed ==
    /\ Answered("list_orders", 200) => ListsExactly(last.body, coll.order, last.req)
    /\ Answered("list_payouts", 200) =>
          ListsExactly(last.body, coll.payoutrequest, last.req)

C8_Step ==
    (Responds /\ last'.op \in {"list_orders", "list_payouts"}) => coll' = coll

(***************************************************************************)
(* C8.  list_orders and list_payouts return exactly the documents of their *)
(* collection with the given school_id, of any status, and none of another *)
(* school; the empty sequence when there is none; and the store is left    *)
(* as it was.                                                              *)
(***************************************************************************)
C8_ListExact == []C8_Listed /\ [][C8_Step]_vars

\* one of two orders listed, and it is not a paid one
C8_Witness ==
    /\ Answered("list_orders", 200)
    /\ Len(coll.order) = 2
    /\ Len(last.body) = 1
    /\ last.body[1].status = "pending"

(***************************************************************************)
(* C9.  No two schools of the store have the same email.                   *)
(***************************************************************************)
C9_EmailUnique ==
    \A i, j \in DOMAIN coll.school :
        i # j => coll.school[i].email # coll.school[j].email

\* The collection a create writes to.
OwnCollection(op) ==
    CASE op = "signup" -> "school"
      [] op = "create_order" -> "order"
      [] op = "create_payout" -> "payoutrequest"
      [] OTHER -> "none"

\* One step of the store, whatever the request.
C10_Step ==
    /\ \A name \in CollectionNames : KeptIn(coll[name], coll'[name])
    /\ (\/ coll' # coll
        \/ Responds /\ OwnCollection(last'.op) # "none" /\ last'.code = 200)
         => /\ Responds
            /\ last'.code = 200
            /\ OwnCollection(last'.op) # "none"
            /\ \A name \in CollectionNames :
                  IF name = OwnCollection(last'.op)
                  THEN GrewByOne(coll[name], coll'[name])
                  ELSE coll'[name] = coll[name]

(***************************************************************************)
(* C10.  No request changes or removes a stored document: each collection  *)
(* keeps its documents as written, the store changes only by a create that *)
(* succeeded, and that create adds exactly one document to its own         *)
(* collection and leaves the other two alone.                              *)
(***************************************************************************)
C10_OnlyGrows == [][C10_Step]_vars

\* an order created while a revenue request for the school waits between
\* its two reads
C10_Witness ==
    /\ Answered("create_order", 200)
    /\ Len(coll.order) = 1
    /\ \E h \in BagToSet(inflight) : h.op = "revenue" /\ h.req = last.req.school_id

====
